---- MODULE Spec2Model ----
(***************************************************************************)
(* Drawing state machine of the Map component (src/src/components/Map.tsx, *)
(* first component of the file, lines 65-1399): main-polygon vertices,     *)
(* exclusion holes, undo/redo history, completed polygons, and the area /  *)
(* technical-info notifications sent to the parent component.              *)
(*                                                                         *)
(* Conventions.                                                            *)
(*  - A GeoPoint is a pair <<x, y>> of metres on a local planar grid.      *)
(*    google.maps.geometry.spherical.computeDistanceBetween is the         *)
(*    Euclidean distance on that grid and turf.area is the planar          *)
(*    (shoelace) area, as an absolute value, which is what turf returns    *)
(*    for a single ring.                                                   *)
(*  - currentHistoryIndex keeps the code's 0-based value (-1 when empty);  *)
(*    the snapshot it designates is drawingHistory[currentHistoryIndex+1]. *)
(*  - React state read by a handler is the value of the render that built  *)
(*    the handler (the unprimed variable); set-state calls of one handler  *)
(*    are batched and the last one wins (the primed variable).             *)
(*  - A handler is callable whenever the React state shows its button; a   *)
(*    call whose own guard fails returns without effect.                   *)
(***************************************************************************)
EXTENDS Integers, Sequences, FiniteSets, TLC

VARIABLES
    activeView,           \* useState 'solar' | 'shading' | 'drawing' | '3d'
    googleMap,            \* googleMapRef.current # null
    isDrawingMode,        \* useState
    measurementMode,      \* useState
    isDrawingHole,        \* useState
    drawnPoints,          \* drawnPointsRef.current
    drawingHistory,       \* drawingHistoryRef.current
    currentHistoryIndex,  \* currentHistoryIndexRef.current
    canUndo,              \* useState
    canRedo,              \* useState
    holes,                \* holesRef.current
    currentHole,          \* currentHoleRef.current
    polygons,             \* useState: completed polygons
    listenerPolygons,     \* `polygons` as captured by the click listener's closure
    pending,              \* continuations waiting on setTimeout / the price fetch
    pubArea,              \* last argument of onCustomAreaUpdate: <<>> is null, <<a>> is a
    pubTechArea,          \* area field of the last onTechnicalInfoUpdate argument
    lastOp,               \* the handler that ran last; arg: the position of a snap click,
                          \* the vertices a cleanup cleared, what the handler of a
                          \* returning updateTotalMetrics did, how many snapshots
                          \* lay beyond the index when a vertex was added
    trip,                 \* bookkeeping of an add / undo / redo round trip
    rateEnv,              \* what the geocoder and the price API answer to one lookup
    rateCall,             \* one call of getCurrentElectricityRate: position and result
    priceCall,            \* one call of getLatestElectricityPrice: position and result
    arAddress,            \* AnalysisResults: results.address of the current render
    arMounted,            \* AnalysisResults: the component is mounted
    arRequests,           \* AnalysisResults: rate requests in flight, each with the
                          \* isMounted flag of the effect run that issued it
    arIssued,             \* AnalysisResults: number of requests issued so far
    electricityPrice,     \* AnalysisResults useState
    isRateLoading,        \* AnalysisResults useState
    isFallbackRate,       \* AnalysisResults useState
    metricsInput,         \* updateTotalMetrics: buildingData, `polygons`, the price fetched
    technicalInfo,        \* updateTotalMetrics: the updateInfo object it publishes
    financialsInput,      \* AnalysisResults: what calculateFinancials closes over
    financials,           \* AnalysisResults: what calculateFinancials returns
    isLoading,            \* App useState
    results,              \* App useState: <<>> is null, <<r>> the results object
    error,                \* App useState: "null" or the message shown
    analysis,             \* App: the handleAnalyze call, its position, what the
                          \* building-insights request answered, calls so far
    embedding,            \* WordPress: are the API keys configured on the page, is
                          \* 'solarPanelAnalysis' in the iframe's window
    frameLoaded,          \* WordPress: the iframe ran main.tsx
    toFrame,              \* messages posted to the iframe, not yet handled
    toParent,             \* messages posted to the parent page, not yet handled
    frameKeys,            \* iframe: config.apis.google.maps
    appRuns,              \* iframe: calls of initializeApp
    initsPosted,          \* parent: `init` messages posted by initializeFrame
    readiesPosted,        \* iframe: `ready` messages posted
    keysTargets,          \* parent: the targetOrigin of every post that carried keys
    parentHandled         \* parent: analysisComplete / analysisError messages acted on

\* the Map component
mapVars == <<activeView, googleMap, isDrawingMode, measurementMode, isDrawingHole,
             drawnPoints, drawingHistory, currentHistoryIndex, canUndo, canRedo,
             holes, currentHole, polygons, listenerPolygons, pending,
             pubArea, pubTechArea, lastOp, trip>>

\* the electricity-rate lookups
rateVars == <<rateEnv, rateCall, priceCall>>

\* the rate effect of the AnalysisResults component
arVars == <<arAddress, arMounted, arRequests, arIssued,
            electricityPrice, isRateLoading, isFallbackRate>>

\* the figures of updateTotalMetrics and of calculateFinancials
metricsVars == <<metricsInput, technicalInfo, financialsInput, financials>>

\* the address analysis of the App component
appVars == <<isLoading, results, error, analysis>>

\* the WordPress page and the iframe it embeds
embedVars == <<embedding, frameLoaded, toFrame, toParent, frameKeys, appRuns,
               initsPosted, readiesPosted, keysTargets, parentHandled>>

\* everything the Map component, the rate lookups, the results view, the
\* figures, the App component, the embedding do not touch
outsideMap == <<rateVars, arVars, metricsVars, appVars, embedVars>>
outsideRate == <<mapVars, arVars, metricsVars, appVars, embedVars>>
outsideResults == <<mapVars, rateVars, metricsVars, appVars, embedVars>>
outsideMetrics == <<mapVars, rateVars, arVars, appVars, embedVars>>
outsideApp == <<mapVars, rateVars, arVars, metricsVars, embedVars>>
outsideEmbed == <<mapVars, rateVars, arVars, metricsVars, appVars>>

vars == <<mapVars, rateVars, arVars, metricsVars, appVars, embedVars>>

session == <<drawnPoints, drawingHistory, currentHistoryIndex, canUndo, canRedo,
             holes, currentHole>>

\* ------------------------------------------------------------------ bounds
MaxPts == 3
MaxHolePts == 3
MaxHoles == 1
MaxHist == 3
MaxPolygons == 1
MaxPending == 1

\* ------------------------------------------------------------------ inputs
Views == {"solar", "shading", "drawing", "3d"}

\* click positions while the main polygon is drawn: <<1,0>> lies 1 m from
\* <<0,0>>, <<8,8>> far from both
Points == {<<0, 0>>, <<1, 0>>, <<8, 8>>}

\* click positions while an exclusion zone is drawn: the triangle they span
\* lies inside the one Points spans and has half its area
HolePoints == {<<0, 0>>, <<1, 0>>, <<4, 4>>}

\* the grid is local: the first vertex of a ring is its origin
Origin == <<0, 0>>
FirstAtOrigin(ring, p) == Len(ring) = 0 => p = Origin

\* the building-insights data the component was given (solarPotential is
\* present: the view buttons are rendered only then, Map.tsx:1264)
RoofData == [maxArrayAreaMeters2 |-> 50]

\* ---------------------------------------------------------------- geometry
SnapTolerance == 2

Abs(n) == IF n < 0 THEN -n ELSE n

computeDistanceSquared(p, q) ==
    (p[1] - q[1]) * (p[1] - q[1]) + (p[2] - q[2]) * (p[2] - q[2])

\* distance < 2
WithinSnap(p, q) == computeDistanceSquared(p, q) < SnapTolerance * SnapTolerance

isLatLngEqual(p, q) == p[1] = q[1] /\ p[2] = q[2]

\* a ring left as the vertex buffer holds it
CloseRingOpen(ring) == ring

\* "ensure the ring is closed": push the first point unless the last equals it
CloseRing(ring) ==
    IF Len(ring) > 0 /\ ~isLatLngEqual(ring[1], ring[Len(ring)])
    THEN Append(ring, ring[1])
    ELSE ring

\* turf.polygon throws unless the ring has >= 4 positions and is closed
turfPolygonOK(ring) ==
    Len(ring) >= 4 /\ isLatLngEqual(ring[1], ring[Len(ring)])

RECURSIVE Shoelace(_, _)
Shoelace(ring, i) ==
    IF i >= Len(ring) THEN 0
    ELSE (ring[i][1] * ring[i + 1][2] - ring[i + 1][1] * ring[i][2])
         + Shoelace(ring, i + 1)

\* turf.area of a one-ring polygon (the grid keeps every y even, so the
\* division is exact)
turfArea(ring) == Abs(Shoelace(ring, 1)) \div 2

RECURSIVE SumHoleAreas(_, _)
SumHoleAreas(hs, i) ==
    IF i > Len(hs) THEN 0
    ELSE (IF Len(hs[i]) >= 3 THEN turfArea(CloseRing(hs[i])) ELSE 0)
         + SumHoleAreas(hs, i + 1)

\* ------------------------------------------------------------ updatePolygon
\* updatePolygon returns early without a map or with fewer than 2 vertices,
\* computes the area only with >= 3 vertices, and its try/catch swallows the
\* exception turf.polygon throws on a ring it rejects.
updatePolygonNotifies(pts, hs, map) ==
    /\ map
    /\ Len(pts) >= 3
    /\ turfPolygonOK(CloseRing(pts))
    /\ \A i \in 1..Len(hs) : Len(hs[i]) >= 3 => turfPolygonOK(CloseRing(hs[i]))

\* the main area with the holes left out of the subtraction
finalAreaIgnoresHoles(pts, hs) == turfArea(CloseRing(pts))

\* finalArea = totalArea - excludedArea
finalArea(pts, hs) == turfArea(CloseRing(pts)) - SumHoleAreas(hs, 1)

\* updateTechnicalAnalysis: onCustomAreaUpdate(area), onTechnicalInfoUpdate({area, ...})
updateTechnicalAnalysis(notifies, area) ==
    /\ pubArea' = IF notifies THEN <<area>> ELSE pubArea
    /\ pubTechArea' = IF notifies THEN area ELSE pubTechArea

updatePolygon(pts, hs) ==
    updateTechnicalAnalysis(updatePolygonNotifies(pts, hs, googleMap), finalArea(pts, hs))

\* ------------------------------------------------------- updateTotalMetrics
RECURSIVE SumPolygonAreas(_, _)
SumPolygonAreas(polys, i) ==
    IF i > Len(polys) THEN 0
    ELSE (IF polys[i].area > 0 THEN polys[i].area ELSE 0) + SumPolygonAreas(polys, i + 1)

\* a total that is 0 when no polygon was completed
totalAreaZeroWhenEmpty(polys) ==
    IF Len(polys) > 0 THEN SumPolygonAreas(polys, 1) ELSE 0

\* totalArea of updateTotalMetrics, from the `polygons` value of its closure
totalArea(polys) ==
    IF Len(polys) > 0 THEN SumPolygonAreas(polys, 1)
    ELSE RoofData.maxArrayAreaMeters2

\* an updateTotalMetrics call that is waiting: `left` publications remain,
\* `exit` says whether setIsDrawingMode(false) follows the last one, `from`
\* names what the handler it belongs to did
Task(polys, exit, left, from) ==
    [total |-> totalArea(polys), exit |-> exit, left |-> left, from |-> from]

\* ------------------------------------------------------------------ history
\* a push that keeps the snapshots beyond the index
addToHistoryListKeepsTail(hist, idx, points) == Append(hist, points)

\* addToHistory(points): the new history and index
addToHistoryList(hist, idx, points) == Append(SubSeq(hist, 1, idx + 1), points)

\* an addToHistory that leaves the redo flag as it was
addToHistoryKeepsRedoFlag(points) ==
    /\ drawingHistory' = addToHistoryList(drawingHistory, currentHistoryIndex, points)
    /\ currentHistoryIndex' = currentHistoryIndex + 1
    /\ canUndo' = (currentHistoryIndex + 1 > 0)
    /\ canRedo' = canRedo

addToHistory(points) ==
    /\ drawingHistory' = addToHistoryList(drawingHistory, currentHistoryIndex, points)
    /\ currentHistoryIndex' = currentHistoryIndex + 1
    /\ canUndo' = (currentHistoryIndex + 1 > 0)
    /\ canRedo' = FALSE

\* --------------------------------------------------------------- bookkeeping
Op(name, arg) == [op |-> name, arg |-> arg]

TripOff == [phase |-> "off", n |-> 0, k |-> 0, r |-> 0]
TripFresh == [phase |-> "add", n |-> 0, k |-> 0, r |-> 0]

TripAdd == IF trip.phase = "add" THEN [trip EXCEPT !.n = @ + 1] ELSE TripOff

TripUndo ==
    IF trip.phase \in {"add", "undo"} /\ trip.n >= 1 /\ trip.k < trip.n
    THEN [trip EXCEPT !.phase = "undo", !.k = @ + 1]
    ELSE TripOff

TripRedo ==
    IF \/ trip.phase = "undo" /\ trip.k = trip.n
       \/ trip.phase = "redo" /\ trip.r < trip.n
    THEN [trip EXCEPT !.phase = "redo", !.r = @ + 1]
    ELSE TripOff

\* the click listener is re-created, with the `polygons` of that render,
\* when one of the effect's dependencies changes (Map.tsx:652)
ListenerEffect ==
    listenerPolygons' =
        IF <<isDrawingMode', activeView', isDrawingHole', measurementMode'>>
           # <<isDrawingMode, activeView, isDrawingHole, measurementMode>>
        THEN polygons'
        ELSE listenerPolygons

\* --------------------------------------------------------------------- Init
MapInit ==
    /\ activeView = "solar"
    /\ googleMap = FALSE
    /\ isDrawingMode = FALSE
    /\ measurementMode = FALSE
    /\ isDrawingHole = FALSE
    /\ drawnPoints = <<>>
    /\ drawingHistory = <<>>
    /\ currentHistoryIndex = -1
    /\ canUndo = FALSE
    /\ canRedo = FALSE
    /\ holes = <<>>
    /\ currentHole = <<>>
    /\ polygons = <<>>
    /\ listenerPolygons = <<>>
    /\ pending = <<>>
    /\ pubArea = <<>>
    /\ pubTechArea = 0
    /\ lastOp = Op("init", <<>>)
    /\ trip = TripFresh

\* ----------------------------------------------------------------- actions
\* initGoogleMap, once importLibrary has resolved
InitGoogleMap ==
    /\ UNCHANGED outsideMap
    /\ activeView # "3d"
    /\ ~googleMap
    /\ googleMap' = TRUE
    /\ lastOp' = Op("initGoogleMap", <<>>)
    /\ UNCHANGED <<activeView, isDrawingMode, measurementMode, isDrawingHole,
                   session, polygons, listenerPolygons, pending,
                   pubArea, pubTechArea, trip>>

\* a cleanup that leaves the undo history alone
cleanupSessionKeepsHistory ==
    /\ polygons' = <<>>
    /\ drawnPoints' = <<>>
    /\ holes' = <<>>
    /\ currentHole' = <<>>
    /\ UNCHANGED <<drawingHistory, currentHistoryIndex, canUndo, canRedo>>
    /\ pubTechArea' = 0
    /\ pubArea' = <<>>

\* the assignments of cleanup() other than the two mode flags
cleanupSession ==
    /\ polygons' = <<>>
    /\ drawnPoints' = <<>>
    /\ holes' = <<>>
    /\ currentHole' = <<>>
    /\ drawingHistory' = <<>>
    /\ currentHistoryIndex' = -1
    /\ canUndo' = FALSE
    /\ canRedo' = FALSE
    /\ pubTechArea' = 0
    /\ pubArea' = <<>>

\* the "Effacer" button
cleanup ==
    /\ UNCHANGED outsideMap
    /\ activeView = "drawing"
    /\ cleanupSession
    /\ isDrawingMode' = FALSE
    /\ isDrawingHole' = FALSE
    /\ lastOp' = Op("cleanup", drawnPoints)
    /\ trip' = TripFresh
    /\ UNCHANGED <<activeView, googleMap, measurementMode, pending>>
    /\ ListenerEffect

\* a view button: the effect clean-up of the previous view runs cleanup() when
\* a map exists and drops the map, then the effects of the new view set the
\* drawing and measurement modes
setActiveView(v) ==
    /\ UNCHANGED outsideMap
    /\ v # activeView
    /\ activeView' = v
    /\ IF googleMap
       THEN /\ cleanupSession
            /\ isDrawingHole' = FALSE
            /\ trip' = TripFresh
       ELSE UNCHANGED <<session, polygons, pubArea, pubTechArea, isDrawingHole, trip>>
    /\ googleMap' = FALSE
    /\ isDrawingMode' = (v = "drawing")
    /\ measurementMode' = (v = "drawing")
    /\ lastOp' = Op("setActiveView", <<>>)
    /\ UNCHANGED pending
    /\ ListenerEffect

\* completePolygon up to its first await: nothing happens with fewer than 3
\* vertices or when turf.polygon throws (the catch swallows it); otherwise the
\* closed ring becomes a completed polygon and the vertex buffer is reset
completePolygonCompletes(pts) == Len(pts) >= 3 /\ turfPolygonOK(CloseRing(pts))

completePolygon ==
    IF completePolygonCompletes(drawnPoints)
    THEN /\ polygons' = Append(polygons, [path |-> CloseRing(drawnPoints),
                                          area |-> turfArea(CloseRing(drawnPoints))])
         /\ drawnPoints' = <<>>
    ELSE UNCHANGED <<polygons, drawnPoints>>

\* completeHole, apart from setIsDrawingHole(false)
completeHole ==
    IF Len(currentHole) < 3
    THEN UNCHANGED <<holes, currentHole, pubArea, pubTechArea>>
    ELSE /\ holes' = Append(holes, CloseRing(currentHole))
         /\ currentHole' = <<>>
         /\ updatePolygon(drawnPoints, holes')

\* the map click listener
clickListener(p) ==
    /\ UNCHANGED outsideMap
    /\ googleMap
    /\ activeView # "3d"
    /\ isDrawingMode
    /\ IF isDrawingHole
       THEN IF Len(currentHole) > 2 /\ WithinSnap(currentHole[1], p)
            THEN /\ p \in HolePoints
                 /\ Len(holes) < MaxHoles
                 /\ completeHole
                 /\ isDrawingHole' = FALSE
                 /\ lastOp' = Op("snapHole", p)
                 /\ UNCHANGED <<drawnPoints, drawingHistory, currentHistoryIndex,
                                canUndo, canRedo, polygons, pending>>
            ELSE /\ p \in HolePoints
                 /\ Len(currentHole) < MaxHolePts
                 /\ FirstAtOrigin(currentHole, p)
                 /\ currentHole' = Append(currentHole, p)
                 /\ updatePolygon(drawnPoints, holes)
                 /\ lastOp' = Op("addHolePoint", <<>>)
                 /\ UNCHANGED <<drawnPoints, drawingHistory, currentHistoryIndex,
                                canUndo, canRedo, holes, isDrawingHole, polygons, pending>>
       ELSE IF measurementMode
       THEN IF Len(drawnPoints) > 2 /\ WithinSnap(drawnPoints[1], p)
            THEN /\ p \in Points
                 /\ Len(polygons) < MaxPolygons
                 /\ Len(pending) < MaxPending
                 /\ completePolygon
                 /\ pending' = IF completePolygonCompletes(drawnPoints)
                               THEN Append(pending, Task(listenerPolygons, FALSE, 1, "completePolygon"))
                               ELSE pending
                 /\ lastOp' = Op("snapClose", p)
                 /\ UNCHANGED <<drawingHistory, currentHistoryIndex, canUndo, canRedo,
                                holes, currentHole, isDrawingHole, pubArea, pubTechArea>>
            ELSE /\ p \in Points
                 /\ Len(drawnPoints) < MaxPts
                 /\ FirstAtOrigin(drawnPoints, p)
                 /\ currentHistoryIndex + 2 <= MaxHist
                 /\ drawnPoints' = Append(drawnPoints, p)
                 /\ addToHistory(drawnPoints')
                 /\ updatePolygon(drawnPoints', holes)
                 /\ lastOp' = Op("addVertex", <<Len(drawingHistory) - (currentHistoryIndex + 1)>>)
                 /\ UNCHANGED <<holes, currentHole, isDrawingHole, polygons, pending>>
       ELSE /\ p \in Points
            /\ updatePolygon(drawnPoints, holes)
            /\ lastOp' = Op("click", <<>>)
            /\ UNCHANGED <<session, isDrawingHole, polygons, pending>>
    /\ trip' = IF lastOp'.op = "addVertex" THEN TripAdd ELSE TripOff
    /\ UNCHANGED <<activeView, googleMap, isDrawingMode, measurementMode>>
    /\ ListenerEffect

\* the index handleUndo / handleRedo move to (the index itself when the guard fails)
undoIndex(idx) == IF idx > 0 THEN idx - 1 ELSE idx
redoIndex(idx, hist) == IF idx < Len(hist) - 1 THEN idx + 1 ELSE idx

\* an undo that pops the snapshots beyond the index it moves to
historyPopped == drawingHistory' = SubSeq(drawingHistory, 1, currentHistoryIndex' + 1)

\* handleUndo and handleRedo read drawingHistoryRef and never write it
historyKept == drawingHistory' = drawingHistory

\* what handleUndo and handleRedo do once the index moved to idx
restoreSnapshot(idx) ==
    /\ currentHistoryIndex' = idx
    /\ drawnPoints' = drawingHistory[idx + 1]
    /\ updatePolygon(drawnPoints', holes)
    /\ canUndo' = (idx > 0)
    /\ canRedo' = (idx < Len(drawingHistory) - 1)

handleUndo ==
    /\ UNCHANGED outsideMap
    /\ activeView = "drawing"
    /\ isDrawingMode
    /\ IF undoIndex(currentHistoryIndex) # currentHistoryIndex
       THEN /\ restoreSnapshot(undoIndex(currentHistoryIndex))
            /\ lastOp' = Op("undo", <<>>)
       ELSE /\ lastOp' = Op("undoNoop", <<>>)
            /\ UNCHANGED <<currentHistoryIndex, drawnPoints, pubArea, pubTechArea, canUndo, canRedo>>
    /\ trip' = TripUndo
    /\ historyKept
    /\ UNCHANGED <<activeView, googleMap, isDrawingMode, measurementMode, isDrawingHole,
                   holes, currentHole, polygons, listenerPolygons, pending>>

handleRedo ==
    /\ UNCHANGED outsideMap
    /\ activeView = "drawing"
    /\ isDrawingMode
    /\ IF redoIndex(currentHistoryIndex, drawingHistory) # currentHistoryIndex
       THEN /\ restoreSnapshot(redoIndex(currentHistoryIndex, drawingHistory))
            /\ lastOp' = Op("redo", <<>>)
       ELSE /\ lastOp' = Op("redoNoop", <<>>)
            /\ UNCHANGED <<currentHistoryIndex, drawnPoints, pubArea, pubTechArea, canUndo, canRedo>>
    /\ trip' = TripRedo
    /\ historyKept
    /\ UNCHANGED <<activeView, googleMap, isDrawingMode, measurementMode, isDrawingHole,
                   holes, currentHole, polygons, listenerPolygons, pending>>

\* an "Exclure Zone" handler without the check on the number of vertices
startDrawingHoleUnguarded ==
    /\ UNCHANGED outsideMap
    /\ activeView = "drawing"
    /\ isDrawingMode
    /\ ~isDrawingHole
    /\ Len(holes) < MaxHoles
    /\ currentHole' = <<>>
    /\ isDrawingHole' = TRUE
    /\ lastOp' = Op("startDrawingHole", <<>>)
    /\ trip' = TripOff
    /\ UNCHANGED <<activeView, googleMap, isDrawingMode, measurementMode,
                   drawnPoints, drawingHistory, currentHistoryIndex, canUndo, canRedo,
                   holes, polygons, pending, pubArea, pubTechArea>>
    /\ ListenerEffect

\* the "Exclure Zone" button
startDrawingHole ==
    /\ UNCHANGED outsideMap
    /\ activeView = "drawing"
    /\ isDrawingMode
    /\ ~isDrawingHole
    /\ Len(holes) < MaxHoles
    /\ IF Len(drawnPoints) < 3
       THEN /\ lastOp' = Op("startDrawingHoleNoop", <<>>)
            /\ UNCHANGED <<currentHole, isDrawingHole>>
       ELSE /\ currentHole' = <<>>
            /\ isDrawingHole' = TRUE
            /\ lastOp' = Op("startDrawingHole", <<>>)
    /\ trip' = TripOff
    /\ UNCHANGED <<activeView, googleMap, isDrawingMode, measurementMode,
                   drawnPoints, drawingHistory, currentHistoryIndex, canUndo, canRedo,
                   holes, polygons, pending, pubArea, pubTechArea>>
    /\ ListenerEffect

\* the "Terminer Configuration" / "Configurer Zone" button, up to its first
\* await that leaves the event loop
handleConfigTerminer ==
    /\ UNCHANGED outsideMap
    /\ activeView = "drawing"
    /\ IF isDrawingMode
       THEN /\ Len(pending) < MaxPending
            /\ IF isDrawingHole
               THEN /\ Len(currentHole) >= 3 => Len(holes) < MaxHoles
                    /\ completeHole
                    /\ isDrawingHole' = FALSE
                    /\ pending' = Append(pending, Task(polygons, TRUE, 1,
                                                  IF Len(currentHole) >= 3 THEN "completeHole" ELSE "none"))
                    /\ lastOp' = Op("endConfigHole", <<>>)
                    /\ UNCHANGED <<drawnPoints, polygons>>
               ELSE /\ Len(drawnPoints) >= 3 => Len(polygons) < MaxPolygons
                    /\ completePolygon
                    /\ pending' = Append(pending,
                                         IF completePolygonCompletes(drawnPoints)
                                         THEN Task(polygons, TRUE, 2, "completePolygon")
                                         ELSE Task(polygons, TRUE, 1,
                                                   IF Len(drawnPoints) < 3 THEN "fewVertices"
                                                   ELSE "none"))
                    /\ lastOp' = Op("endConfigMain", <<>>)
                    /\ UNCHANGED <<holes, currentHole, isDrawingHole, pubArea, pubTechArea>>
            /\ UNCHANGED <<isDrawingMode, drawingHistory, currentHistoryIndex, canUndo, canRedo>>
            /\ trip' = TripOff
       ELSE /\ IF Len(drawnPoints) > 0
               THEN /\ cleanupSession
                    /\ isDrawingMode' = FALSE
                    /\ isDrawingHole' = FALSE
                    /\ lastOp' = Op("startConfig", <<>>)
                    /\ trip' = TripFresh
               ELSE /\ isDrawingMode' = TRUE
                    /\ lastOp' = Op("startConfig", <<>>)
                    /\ UNCHANGED <<session, polygons, isDrawingHole, pubArea, pubTechArea, trip>>
            /\ UNCHANGED pending
    /\ UNCHANGED <<activeView, googleMap, measurementMode>>
    /\ ListenerEffect

\* a waiting updateTotalMetrics call gets its price and publishes; after the
\* last one of handleConfigTerminer, setIsDrawingMode(false)
RemoveAt(seq, i) == SubSeq(seq, 1, i - 1) \o SubSeq(seq, i + 1, Len(seq))

updateTotalMetrics(i) ==
    /\ UNCHANGED outsideMap
    /\ i \in 1..Len(pending)
    /\ pubTechArea' = pending[i].total
    /\ pubArea' = <<pending[i].total>>
    /\ IF pending[i].left > 1
       THEN /\ pending' = [pending EXCEPT ![i].left = @ - 1]
            /\ UNCHANGED isDrawingMode
       ELSE /\ pending' = RemoveAt(pending, i)
            /\ isDrawingMode' = IF pending[i].exit THEN FALSE ELSE isDrawingMode
    /\ lastOp' = Op("updateTotalMetrics", <<pending[i].from>>)
    /\ UNCHANGED <<activeView, googleMap, measurementMode, isDrawingHole, session,
                   polygons, trip>>
    /\ ListenerEffect

\* ------------------------------------------------- electricity-rate lookups
\* Rates are integers in units of 0.00001 EUR/kWh, API prices integers in
\* EUR/MWh.  A JavaScript number is [kind |-> "num", v |-> n]; NaN and
\* undefined are values of their own.
MaxPriceMWh == 150

Num(n) == [kind |-> "num", v |-> n]
NaN == [kind |-> "NaN", v |-> 0]
Undefined == [kind |-> "undefined", v |-> 0]

\* FALLBACK_RATES
FALLBACK_RATES ==
    [FR |-> 21700, DE |-> 37900, ES |-> 18900, IT |-> 25900,
     GB |-> 27800, NL |-> 31500, BE |-> 28900]

\* FALLBACK_RATES[countryCode]: undefined for a key the table lacks
FallbackLookup(cc) ==
    IF cc \in DOMAIN FALLBACK_RATES THEN Num(FALLBACK_RATES[cc]) ELSE Undefined

\* x || FALLBACK_RATES['FR']
OrFrance(x) == IF x.kind = "num" /\ x.v # 0 THEN x ELSE Num(FALLBACK_RATES["FR"])

\* parseFloat(data.data.price)
parseFloat(price) == IF price.kind = "num" THEN Num(price.v) ELSE NaN

\* parseFloat(price) / 1000 * MARGIN_MULTIPLIER, in rate units
MarginMultiplierTenths == 35
rateInKwh(price) ==
    IF parseFloat(price).kind = "num"
    THEN Num((parseFloat(price).v * 100 * MarginMultiplierTenths) \div 10)
    ELSE NaN

\* rateInKwh < 0.10 || rateInKwh > 0.50: both comparisons are false on NaN
RateMin == 10000
RateMax == 50000
OutOfRange(r) == r.kind = "num" /\ (r.v < RateMin \/ r.v > RateMax)

\* what the services answer: the geocoder a country code or null; the fetch a
\* network error, an error status or a response; the response body a parse
\* error, success false, no data object, or a price that is a number, absent
\* or text
CountryCodes == {"null", "FR", "DE", "XX"}
HttpOutcomes == {"throw", "notOk", "ok"}
Payloads ==
    {[body |-> b, price |-> NaN] : b \in {"parseError", "notSuccess", "noData"}}
    \cup {[body |-> "data", price |-> [kind |-> k, v |-> 0]] : k \in {"missing", "text"}}
    \cup {[body |-> "data", price |-> Num(n)] : n \in (-1)..MaxPriceMWh}

RateEnvs == [country : CountryCodes, http : HttpOutcomes, payload : Payloads]

Call(pc, result) == [pc |-> pc, result |-> result]

RateIdle ==
    /\ rateEnv = [country |-> "null", http |-> "throw",
                  payload |-> [body |-> "parseError", price |-> NaN]]
    /\ rateCall = Call("idle", Undefined)
    /\ priceCall = Call("idle", Undefined)

\* the catch block of getCurrentElectricityRate, countryCode known
rateCatch == FallbackLookup(rateEnv.country)

\* getCurrentElectricityRate: await getCountryFromAddress(address)
RateGeocode ==
    /\ rateCall.pc = "geocode"
    /\ rateCall' = IF rateEnv.country = "null"
                   THEN Call("done", Num(FALLBACK_RATES["FR"]))
                   ELSE Call("fetch", Undefined)
    /\ UNCHANGED <<outsideRate, rateEnv, priceCall>>

\* getCurrentElectricityRate: await fetch(...)
RateFetch ==
    /\ rateCall.pc = "fetch"
    /\ rateCall' =
         CASE rateEnv.http = "throw" -> Call("done", rateCatch)
           [] rateEnv.http = "notOk" -> Call("done", OrFrance(FallbackLookup(rateEnv.country)))
           [] OTHER -> Call("json", Undefined)
    /\ UNCHANGED <<outsideRate, rateEnv, priceCall>>

\* getCurrentElectricityRate: await response.json() and the rest of the body
RateJson ==
    /\ rateCall.pc = "json"
    /\ rateCall' =
         CASE rateEnv.payload.body = "parseError" -> Call("done", rateCatch)
           [] rateEnv.payload.body = "notSuccess" ->
                  Call("done", OrFrance(FallbackLookup(rateEnv.country)))
           [] rateEnv.payload.body = "noData" -> Call("done", rateCatch)
           [] OTHER ->
                  IF OutOfRange(rateInKwh(rateEnv.payload.price))
                  THEN Call("done", OrFrance(FallbackLookup(rateEnv.country)))
                  ELSE Call("done", rateInKwh(rateEnv.payload.price))
    /\ UNCHANGED <<outsideRate, rateEnv, priceCall>>

\* getLatestElectricityPrice: its catch returns 0.34223
DefaultPrice == 34223

\* getLatestElectricityPrice: await fetch(...), an error status throws
PriceFetch ==
    /\ priceCall.pc = "fetch"
    /\ priceCall' = IF rateEnv.http = "ok" THEN Call("json", Undefined)
                    ELSE Call("done", Num(DefaultPrice))
    /\ UNCHANGED <<outsideRate, rateEnv, rateCall>>

\* getLatestElectricityPrice: await response.json(), parseFloat(price) / 1000
PriceJson ==
    /\ priceCall.pc = "json"
    /\ priceCall' =
         CASE rateEnv.payload.body \in {"parseError", "noData"} -> Call("done", Num(DefaultPrice))
           [] OTHER ->
                  IF parseFloat(rateEnv.payload.price).kind = "num"
                  THEN Call("done", Num(parseFloat(rateEnv.payload.price).v * 100))
                  ELSE Call("done", NaN)
    /\ UNCHANGED <<outsideRate, rateEnv, rateCall>>

\* ------------------------------------------ AnalysisResults: the rate effect
MaxRequests == 3

Addresses == {"addressA", "addressB"}

\* what getCurrentElectricityRate resolves to: a fallback of its table, a rate
\* derived from the API price, or undefined
RateResponses == {Num(FALLBACK_RATES["FR"]), Num(FALLBACK_RATES["DE"]), Num(35000), Undefined}

\* useState<number>(0.34223)
InitialElectricityPrice == 34223

\* the rates the component takes for fallback rates
DisplayFallbackRates == {34223, 37900, 18900, 25900, 27800, 31500, 28900}

Request(id, address, isMounted) == [id |-> id, address |-> address, isMounted |-> isMounted]

\* the effect clean-up: isMounted = false in the closure of the run it ends
effectCleanup(reqs) == {Request(r.id, r.address, FALSE) : r \in reqs}

ARIdle ==
    /\ arAddress = "addressA"
    /\ arMounted = FALSE
    /\ arRequests = {}
    /\ arIssued = 0
    /\ electricityPrice = Num(InitialElectricityPrice)
    /\ isRateLoading = TRUE
    /\ isFallbackRate = FALSE

\* the first render: the effect runs and issues the first request
ARMount ==
    /\ ~arMounted
    /\ arIssued = 0
    /\ \E a \in Addresses : arAddress' = a
    /\ arMounted' = TRUE
    /\ arIssued' = 1
    /\ arRequests' = {Request(1, arAddress', TRUE)}
    /\ isRateLoading' = TRUE
    /\ isFallbackRate' = FALSE
    /\ UNCHANGED <<outsideResults, electricityPrice>>

\* results.address changes: the clean-up of the previous run, then the effect
ARNewAddress(a) ==
    /\ arMounted
    /\ a # arAddress
    /\ arIssued < MaxRequests
    /\ arAddress' = a
    /\ arIssued' = arIssued + 1
    /\ arRequests' = effectCleanup(arRequests) \cup {Request(arIssued + 1, a, TRUE)}
    /\ isRateLoading' = TRUE
    /\ isFallbackRate' = FALSE
    /\ UNCHANGED <<outsideResults, arMounted, electricityPrice>>

\* the results view is torn down
ARUnmount ==
    /\ arMounted
    /\ arMounted' = FALSE
    /\ arRequests' = effectCleanup(arRequests)
    /\ UNCHANGED <<outsideResults, arAddress, arIssued, electricityPrice,
                   isRateLoading, isFallbackRate>>

\* a guard that lets every response through
stillMountedAlways(r) == TRUE

\* if (isMounted)
stillMounted(r) == r.isMounted

\* a request resolves with rate: .then and .finally
ARResolve(r, rate) ==
    /\ r \in arRequests
    /\ arRequests' = arRequests \ {r}
    /\ IF stillMounted(r)
       THEN /\ electricityPrice' = rate
            /\ isFallbackRate' = (rate.kind = "num" /\ rate.v \in DisplayFallbackRates)
            /\ isRateLoading' = FALSE
       ELSE UNCHANGED <<electricityPrice, isFallbackRate, isRateLoading>>
    /\ UNCHANGED <<outsideResults, arAddress, arMounted, arIssued>>

\* ------------------------------------- figures: energy, revenue and payback
\* Areas are whole m2, energies whole kWh, peak power is in tenths of kWc,
\* money in units of 0.00001 EUR (the unit of the rates) in updateTotalMetrics
\* and in whole EUR in calculateFinancials.  A quotient the code reports as a
\* floating-point number is the fraction in lowest terms.
MaxRoofArea == 8
MaxDrawnArea == 12

RECURSIVE GCD(_, _)
GCD(a, b) == IF b = 0 THEN a ELSE GCD(b, a % b)

\* n / d for n >= 0, d > 0
Frac(n, d) == [num |-> n \div GCD(n, d), den |-> d \div GCD(n, d)]
FracLess(f, g) == f.num * g.den < g.num * f.den
FracMax(f, g) == IF FracLess(f, g) THEN g ELSE f
FracMin(f, g) == IF FracLess(g, f) THEN g ELSE f

Max0(n) == IF n > 0 THEN n ELSE 0

\* solarPotential of the building-insights response: the roof's largest array
\* and its yearly energy, which the response may leave out
SolarPotentials ==
    UNION {{[maxArrayAreaMeters2 |-> a, maxArrayAnnualEnergyKwh |-> e] :
                e \in {Undefined} \cup {Num(y * a) : y \in {0, 200}}} :
           a \in {4, MaxRoofArea}}

\* `polygons`: none, or one polygon of some area
PolygonLists == {<<>>} \cup {<<[area |-> a]>> : a \in 0..MaxDrawnArea}

\* what getLatestElectricityPrice resolved to
LatestPrices == {0, 5000, MaxPriceMWh * 100, DefaultPrice}

MetricsInputs ==
    [solarPotential : SolarPotentials, polygons : PolygonLists,
     electricityPrice : LatestPrices]

\* totalArea of updateTotalMetrics for the roof at hand
metricsTotalArea(in) ==
    IF Len(in.polygons) > 0 THEN SumPolygonAreas(in.polygons, 1)
    ELSE in.solarPotential.maxArrayAreaMeters2

\* Math.floor(Math.max(0, totalArea * 0.9) / (1.7 * 1.0))
numberOfPanels(area) == Max0((Max0(area * 9)) \div 17)

\* numberOfPanels * 0.4, in tenths of kWc
peakPower(area) == Max0(numberOfPanels(area) * 4)

\* solarPotential.maxArrayAnnualEnergyKwh || 0
maxEnergy(sp) ==
    IF sp.maxArrayAnnualEnergyKwh.kind = "num" THEN sp.maxArrayAnnualEnergyKwh.v ELSE 0

\* Math.max(0, maxEnergy * (totalArea / solarPotential.maxArrayAreaMeters2))
estimatedEnergy(sp, area) == Max0((maxEnergy(sp) * area) \div sp.maxArrayAreaMeters2)

InstallationCostPerKw == 1500
MaintenancePerKw == 20
AidePercent == 15
ReventePercent == 60
PrixAutoconso == 34223

\* installationCost - aideAmount, from peak power in tenths of kWc
finalCost(pp) ==
    Max0(pp * InstallationCostPerKw * 10000)
        - Max0((Max0(pp * InstallationCostPerKw * 10000) \div 100) * AidePercent)

\* Math.max(0, peakPower * 20)
maintenanceCostPerYear(pp) == Max0(pp * MaintenancePerKw * 10000)

\* Math.max(0, revenus - maintenanceCostPerYear)
revenusNets(energy, prix, pp) == Max0(Max0(energy * prix) - maintenanceCostPerYear(pp))

\* revenusNets > 0 ? Math.max(0, finalCost / revenusNets) : 0
roi(cost, nets) == IF nets > 0 THEN Frac(cost, nets) ELSE Frac(0, 1)

\* one scenario: the price per kWh, the net yearly revenue, the payback
scenario(energy, prix, pp) ==
    [revenusNets |-> revenusNets(energy, prix, pp),
     roi |-> roi(finalCost(pp), revenusNets(energy, prix, pp))]

\* the updateInfo object
updateInfo(in) ==
    [published |-> TRUE,
     area |-> metricsTotalArea(in),
     numberOfPanels |-> numberOfPanels(metricsTotalArea(in)),
     peakPower |-> peakPower(metricsTotalArea(in)),
     estimatedEnergy |-> estimatedEnergy(in.solarPotential, metricsTotalArea(in)),
     finalCost |-> finalCost(peakPower(metricsTotalArea(in))),
     reventeInfo |->
        scenario(estimatedEnergy(in.solarPotential, metricsTotalArea(in)),
                 Max0((in.electricityPrice * ReventePercent) \div 100),
                 peakPower(metricsTotalArea(in))),
     autoconsoInfo |->
        scenario(estimatedEnergy(in.solarPotential, metricsTotalArea(in)),
                 PrixAutoconso,
                 peakPower(metricsTotalArea(in)))]

NoInfo ==
    [published |-> FALSE, area |-> 0, numberOfPanels |-> 0, peakPower |-> 0,
     estimatedEnergy |-> 0, finalCost |-> 0,
     reventeInfo |-> [revenusNets |-> 0, roi |-> Frac(0, 1)],
     autoconsoInfo |-> [revenusNets |-> 0, roi |-> Frac(0, 1)]]

\* installationCost, yearlyRevenue, yearlyMaintenanceCost: each a Math.max(0, ...)
FinancialsInputs ==
    [installationCost : {0, 3000, 9000},
     yearlyRevenue : {0, 200, 1500},
     yearlyMaintenanceCost : {0, 200}]

AnalysisPeriod == 25
InflationPerMille == 30
DegradationPerMille == 5
MinRoiYears == 5

\* yearlyProfit > 0 ? installationCost / yearlyProfit : ANALYSIS_PERIOD
simpleRoi(in) ==
    IF in.yearlyRevenue - in.yearlyMaintenanceCost > 0
    THEN Frac(in.installationCost, in.yearlyRevenue - in.yearlyMaintenanceCost)
    ELSE Frac(AnalysisPeriod, 1)

\* simpleRoi / (1 + ELECTRICITY_PRICE_INFLATION - PANEL_DEGRADATION)
adjustedRoi(in) ==
    Frac(simpleRoi(in).num * 1000,
         simpleRoi(in).den * (1000 + InflationPerMille - DegradationPerMille))

\* Math.min(ANALYSIS_PERIOD, Math.max(5, adjustedRoi))
ROI_YEARS(in) ==
    FracMin(Frac(AnalysisPeriod, 1), FracMax(Frac(MinRoiYears, 1), adjustedRoi(in)))

NoFinancials == [computed |-> FALSE, ROI_YEARS |-> Frac(0, 1)]

MetricsIdle ==
    /\ metricsInput = [solarPotential |-> [maxArrayAreaMeters2 |-> 4,
                                           maxArrayAnnualEnergyKwh |-> Undefined],
                       polygons |-> <<>>, electricityPrice |-> 0]
    /\ technicalInfo = NoInfo
    /\ financialsInput = [installationCost |-> 0, yearlyRevenue |-> 0,
                          yearlyMaintenanceCost |-> 0]
    /\ financials = NoFinancials

\* updateTotalMetrics, from the roof data to onTechnicalInfoUpdate(updateInfo)
publishTotalMetrics ==
    /\ ~technicalInfo.published
    /\ technicalInfo' = updateInfo(metricsInput)
    /\ UNCHANGED <<outsideMetrics, metricsInput, financialsInput, financials>>

\* const financials = calculateFinancials()
calculateFinancials ==
    /\ ~financials.computed
    /\ financials' = [computed |-> TRUE, ROI_YEARS |-> ROI_YEARS(financialsInput)]
    /\ UNCHANGED <<outsideMetrics, metricsInput, technicalInfo, financialsInput>>

\* ------------------------------------------------- App: analysing an address
MaxAnalyses == 2

\* what the building-insights request answers: a network error, an error
\* status or a response; its text unparsable, an error object or data; the
\* data with or without name / center / boundingBox, solarPotential,
\* solarPotential.solarPanelConfigs and roofSegments
ListShapes == {"absent", "empty", "some"}

\* the text the upstream service puts in the status line of an error response
\* and in the message of an error object
UpstreamTexts == {"Forbidden", "quota exceeded for key"}
InsightsResponses ==
    [http : HttpOutcomes, body : {"unparsable", "error", "data"},
     identified : BOOLEAN, solarPotential : BOOLEAN,
     solarPanelConfigs : ListShapes, roofSegments : ListShapes,
     text : UpstreamTexts]

NoResponse ==
    [http |-> "throw", body |-> "unparsable", identified |-> FALSE,
     solarPotential |-> FALSE, solarPanelConfigs |-> "absent",
     roofSegments |-> "absent", text |-> "Forbidden"]

\* geocodeAddress: the fetch rejects, the status is not 'OK', or coordinates
GeocodeOutcomes == {"throw", "notFound", "ok"}

Analysis(pc, response, answered, calls) ==
    [pc |-> pc, response |-> response, answered |-> answered, calls |-> calls]

AppIdle ==
    /\ isLoading = FALSE
    /\ results = <<>>
    /\ error = "null"
    /\ analysis = Analysis("idle", NoResponse, FALSE, 0)

\* getBuildingInsights throws: fetch rejected, !ok, JSON.parse failed,
\* data.error, or !data.name || !data.center || !data.boundingBox ||
\* !data.solarPotential
getBuildingInsightsThrows(r) ==
    \/ r.http # "ok"
    \/ r.body # "data"
    \/ ~r.identified
    \/ ~r.solarPotential

\* the message of the TypeError a rejected fetch carries and of the
\* SyntaxError of a text that does not parse: the runtime's own words
FetchRejected == "Failed to fetch"
ParseFailed == "Unexpected token in JSON"

\* the message of the Error geocodeAddress throws
geocodeMessage(outcome) ==
    IF outcome = "throw" THEN FetchRejected ELSE "Impossible de trouver l'adresse"

\* the message of the Error getBuildingInsights throws, in the order of its checks
insightsMessage(r) ==
    IF r.http = "throw" THEN FetchRejected
    ELSE IF r.http = "notOk" THEN "Failed to get building insights: " \o r.text
    ELSE IF r.body = "unparsable" THEN ParseFailed
    ELSE IF r.body = "error" THEN "API Error: " \o r.text
    ELSE "Invalid response from Solar API: Missing required fields"

\* data.roofSegments || [], data.solarPotential.solarPanelConfigs || []
OrEmpty(shape) == IF shape = "absent" THEN "empty" ELSE shape

\* the results object handleAnalyze builds from the insights returned
resultsOf(r) ==
    [solarPanelConfigs |-> OrEmpty(r.solarPanelConfigs),
     roofSegments |-> OrEmpty(r.roofSegments),
     yearlyEnergyProduction |->
        IF OrEmpty(r.solarPanelConfigs) = "some"
        THEN "bestConfig.yearlyEnergyDcKwh" ELSE "maxArrayAnnualEnergyKwh"]

\* a handleAnalyze that does not clear the previous error
handleAnalyzeKeepsError ==
    /\ analysis.pc = "idle"
    /\ analysis.calls < MaxAnalyses
    /\ isLoading' = TRUE
    /\ error' = error
    /\ results' = <<>>
    /\ analysis' = Analysis("geocodeAddress", NoResponse, FALSE, analysis.calls + 1)
    /\ UNCHANGED outsideApp

\* handleAnalyze up to its first await
handleAnalyze ==
    /\ analysis.pc = "idle"
    /\ analysis.calls < MaxAnalyses
    /\ isLoading' = TRUE
    /\ error' = "null"
    /\ results' = <<>>
    /\ analysis' = Analysis("geocodeAddress", NoResponse, FALSE, analysis.calls + 1)
    /\ UNCHANGED outsideApp

\* handleAnalyze: await geocodeAddress(address); a failure goes to catch and finally
analyzeGeocoded(outcome) ==
    /\ analysis.pc = "geocodeAddress"
    /\ IF outcome = "ok"
       THEN /\ analysis' = [analysis EXCEPT !.pc = "getBuildingInsights"]
            /\ UNCHANGED <<isLoading, results, error>>
       ELSE /\ error' = geocodeMessage(outcome)
            /\ results' = <<>>
            /\ isLoading' = FALSE
            /\ analysis' = [analysis EXCEPT !.pc = "idle"]
    /\ UNCHANGED outsideApp

\* handleAnalyze: await getBuildingInsights(coordinates), then setResults, or
\* catch; finally
analyzeInsights(r) ==
    /\ analysis.pc = "getBuildingInsights"
    /\ IF getBuildingInsightsThrows(r)
       THEN /\ error' = insightsMessage(r)
            /\ results' = <<>>
       ELSE /\ results' = <<resultsOf(r)>>
            /\ UNCHANGED error
    /\ isLoading' = FALSE
    /\ analysis' = Analysis("idle", r, TRUE, analysis.calls)
    /\ UNCHANGED outsideApp

\* ------------------------------------- WordPress: the page and its iframe
\* The parent page runs the integration script (uninstall.php:39-167), the
\* iframe runs main.tsx.  A message is [type, origin, keys]: the type of its
\* data, the origin of the window that posted it, and whose API keys its data
\* carries ("none" when it carries none).  Each window handles its messages
\* in the order they were posted.
MaxInFlight == 2
MaxExchanges == 3

SiteOrigin == "site"
OtherOrigin == "other"
AnyOrigin == "*"

MessageTypes == {"init", "ready", "analysisComplete", "analysisError"}

Message(type, origin, keys) == [type |-> type, origin |-> origin, keys |-> keys]

\* the pages the plugin can be embedded in
Embeddings == [keysConfigured : BOOLEAN, inWordPress : BOOLEAN]

EmbedIdle ==
    /\ embedding = [keysConfigured |-> FALSE, inWordPress |-> FALSE]
    /\ frameLoaded = FALSE
    /\ toFrame = <<>>
    /\ toParent = <<>>
    /\ frameKeys = "none"
    /\ appRuns = 0
    /\ initsPosted = 0
    /\ readiesPosted = 0
    /\ keysTargets = {}
    /\ parentHandled = 0

\* main.tsx runs in the iframe: the message listener is added, and outside
\* WordPress initializeApp is called at once.  The parent's load listener
\* only logs.
frameLoad ==
    /\ ~frameLoaded
    /\ frameLoaded' = TRUE
    /\ appRuns' = IF embedding.inWordPress THEN appRuns ELSE appRuns + 1
    /\ UNCHANGED <<outsideEmbed, embedding, toFrame, toParent, frameKeys,
                   initsPosted, readiesPosted, keysTargets, parentHandled>>

\* neither listener looks at event.origin
originAccepted(m) == TRUE

\* the counters of posts and calls stop counting at MaxExchanges
Count(n) == IF n < MaxExchanges THEN n + 1 ELSE n

\* the parent's message listener
parentReceive ==
    /\ toParent # <<>>
    /\ toParent' = Tail(toParent)
    /\ IF originAccepted(Head(toParent)) /\ Head(toParent).type = "ready"
       THEN /\ IF embedding.keysConfigured
               THEN /\ toFrame' = Append(toFrame, Message("init", SiteOrigin, "site"))
                    /\ initsPosted' = Count(initsPosted)
                    /\ keysTargets' = keysTargets \cup {AnyOrigin}
               ELSE UNCHANGED <<toFrame, initsPosted, keysTargets>>
            /\ UNCHANGED parentHandled
       ELSE IF /\ originAccepted(Head(toParent))
               /\ Head(toParent).type \in {"analysisComplete", "analysisError"}
       THEN /\ parentHandled' = Count(parentHandled)
            /\ UNCHANGED <<toFrame, initsPosted, keysTargets>>
       ELSE UNCHANGED <<toFrame, initsPosted, keysTargets, parentHandled>>
    /\ UNCHANGED <<outsideEmbed, embedding, frameLoaded, frameKeys, appRuns, readiesPosted>>

\* the iframe's message listener
frameReceive ==
    /\ frameLoaded
    /\ toFrame # <<>>
    /\ toFrame' = Tail(toFrame)
    /\ IF /\ originAccepted(Head(toFrame))
          /\ Head(toFrame).type = "init"
          /\ Head(toFrame).keys # "none"
       THEN /\ frameKeys' = Head(toFrame).keys
            /\ appRuns' = Count(appRuns)
            /\ toParent' = Append(toParent, Message("ready", SiteOrigin, "none"))
            /\ readiesPosted' = Count(readiesPosted)
       ELSE UNCHANGED <<frameKeys, appRuns, toParent, readiesPosted>>
    /\ UNCHANGED <<outsideEmbed, embedding, frameLoaded, initsPosted, keysTargets,
                   parentHandled>>

\* a window of another origin posts a message to the parent page or the
\* iframe, while fewer than MaxInFlight messages wait to be handled
otherWindowPosts(type, toTheParent) ==
    /\ frameLoaded
    /\ Len(toParent) + Len(toFrame) < MaxInFlight
    /\ IF toTheParent
       THEN /\ toParent' = Append(toParent, Message(type, OtherOrigin, "none"))
            /\ UNCHANGED toFrame
       ELSE /\ toFrame' = Append(toFrame,
                    Message(type, OtherOrigin, IF type = "init" THEN "other" ELSE "none"))
            /\ UNCHANGED toParent
    /\ UNCHANGED <<outsideEmbed, embedding, frameLoaded, frameKeys, appRuns,
                   initsPosted, readiesPosted, keysTargets, parentHandled>>

\* ---------------------------------------------------------- specifications
Init == MapInit /\ RateIdle /\ ARIdle /\ MetricsIdle /\ AppIdle /\ EmbedIdle

Next ==
    \/ InitGoogleMap
    \/ \E v \in Views : setActiveView(v)
    \/ \E p \in Points \cup HolePoints : clickListener(p)
    \/ handleUndo
    \/ handleRedo
    \/ startDrawingHole
    \/ handleConfigTerminer
    \/ cleanup
    \/ \E i \in 1..MaxPending : updateTotalMetrics(i)

Spec == Init /\ [][Next]_vars

\* one lookup by each fetcher against every answer of the services
RateInit ==
    /\ MapInit
    /\ ARIdle
    /\ MetricsIdle
    /\ AppIdle
    /\ EmbedIdle
    /\ rateEnv \in RateEnvs
    /\ rateCall = Call("geocode", Undefined)
    /\ priceCall = Call("fetch", Undefined)

RateNext == RateGeocode \/ RateFetch \/ RateJson \/ PriceFetch \/ PriceJson

RateSpec == RateInit /\ [][RateNext]_vars

\* the results view from before its first render
ResultsInit == MapInit /\ RateIdle /\ ARIdle /\ MetricsIdle /\ AppIdle /\ EmbedIdle

ResultsNext ==
    \/ ARMount
    \/ \E a \in Addresses : ARNewAddress(a)
    \/ ARUnmount
    \/ \E r \in arRequests, rate \in RateResponses : ARResolve(r, rate)

ResultsSpec == ResultsInit /\ [][ResultsNext]_vars

\* the figures for every roof, drawing, price and set of costs
MetricsInit ==
    /\ MapInit
    /\ RateIdle
    /\ ARIdle
    /\ AppIdle
    /\ EmbedIdle
    /\ metricsInput \in MetricsInputs
    /\ technicalInfo = NoInfo
    /\ financialsInput \in FinancialsInputs
    /\ financials = NoFinancials

MetricsNext == publishTotalMetrics \/ calculateFinancials

MetricsSpec == MetricsInit /\ [][MetricsNext]_vars

\* the App component from its first render
AppInit == MapInit /\ RateIdle /\ ARIdle /\ MetricsIdle /\ AppIdle /\ EmbedIdle

AppNext ==
    \/ handleAnalyze
    \/ \E outcome \in GeocodeOutcomes : analyzeGeocoded(outcome)
    \/ \E r \in InsightsResponses : analyzeInsights(r)

AppSpec == AppInit /\ [][AppNext]_vars

\* the same, with every awaited request settling: a fetch resolves or rejects
AppLiveSpec ==
    /\ AppInit
    /\ [][AppNext]_vars
    /\ WF_vars(\E outcome \in GeocodeOutcomes : analyzeGeocoded(outcome))
    /\ WF_vars(\E r \in InsightsResponses : analyzeInsights(r))

\* a page with the plugin's shortcode, from before the iframe has loaded
EmbedInit ==
    /\ MapInit
    /\ RateIdle
    /\ ARIdle
    /\ MetricsIdle
    /\ AppIdle
    /\ embedding \in Embeddings
    /\ frameLoaded = FALSE
    /\ toFrame = <<>>
    /\ toParent = <<>>
    /\ frameKeys = "none"
    /\ appRuns = 0
    /\ initsPosted = 0
    /\ readiesPosted = 0
    /\ keysTargets = {}
    /\ parentHandled = 0

EmbedNext ==
    \/ frameLoad
    \/ parentReceive
    \/ frameReceive
    \/ \E type \in MessageTypes, toTheParent \in BOOLEAN : otherWindowPosts(type, toTheParent)

EmbedSpec == EmbedInit /\ [][EmbedNext]_vars

\* the same, with every posted message delivered and every listener run; no
\* other window is obliged to post anything
EmbedLiveSpec ==
    /\ EmbedInit
    /\ [][EmbedNext]_vars
    /\ WF_vars(frameLoad)
    /\ WF_vars(parentReceive)
    /\ WF_vars(frameReceive)

\* =================================================================== claims
\* the area the parent component holds: null counts as 0
Published == IF pubArea = <<>> THEN 0 ELSE pubArea[1]

\* a ring turf.polygon accepts once closed
ProperRing(ring) == Len(ring) >= 4 \/ (Len(ring) = 3 /\ ring[1] # ring[3])

\* the ring followed by its first vertex, unless it already ends there
Closed(ring) == IF ring[Len(ring)] = ring[1] THEN ring ELSE ring \o <<ring[1]>>

\* C1 (as claimed): after N >= 1 vertex additions in a fresh session, N calls
\* of handleUndo leave drawnPoints empty, and N calls of handleRedo after
\* them restore the N-vertex polygon.
C1_UndoRedoRoundTrip ==
    /\ (trip.phase = "undo" /\ trip.k = trip.n) => drawnPoints = <<>>
    /\ (trip.phase = "redo" /\ trip.r = trip.n)
           => (Len(drawnPoints) = trip.n /\ drawnPoints = drawingHistory[trip.n])

\* C2 (as claimed): no area surfaced by updatePolygon is negative, whatever
\* the main polygon and holes are: the area handed to onCustomAreaUpdate and
\* to onTechnicalInfoUpdate is always >= 0.
C2_PublishedAreaNonNegative == Published >= 0 /\ pubTechArea >= 0

\* C3: a click within 2 m of vertex 0 with >= 3 main vertices is discarded:
\* it is not appended and pushes no history snapshot; the vertices, closed at
\* vertex 0, become the completed polygon when they form a ring turf accepts,
\* and nothing changes otherwise.
C3_SnapCloseDiscardsClick ==
    [][\A p \in Points \cup HolePoints :
         (/\ clickListener(p)
          /\ ~isDrawingHole
          /\ measurementMode
          /\ Len(drawnPoints) >= 3
          /\ computeDistanceSquared(drawnPoints[1], p) < 4)
         => /\ drawingHistory' = drawingHistory
            /\ currentHistoryIndex' = currentHistoryIndex
            /\ IF ProperRing(drawnPoints)
               THEN /\ drawnPoints' = <<>>
                    /\ Len(polygons') = Len(polygons) + 1
                    /\ polygons'[Len(polygons')].path = Closed(drawnPoints)
               ELSE /\ drawnPoints' = drawnPoints
                    /\ polygons' = polygons]_vars

\* a snap-close click away from vertex 0 itself has completed a polygon
C3_Witness ==
    /\ lastOp.op = "snapClose"
    /\ lastOp.arg # Origin
    /\ drawnPoints = <<>>
    /\ Len(polygons) = 1
    /\ polygons[1].path[Len(polygons[1].path)] = Origin
    /\ lastOp.arg \notin {polygons[1].path[i] : i \in 1..Len(polygons[1].path)}

\* C4 (as claimed): after a snap-close click has completed the polygon the
\* machine is Idle: isDrawingMode is false, so further clicks add no vertex.
C4_SnapCloseEndsDrawing ==
    (lastOp.op = "snapClose" /\ Len(polygons) > 0 /\ drawnPoints = <<>>) => ~isDrawingMode

\* C5 (as claimed): "Configurer Zone", pressed while isDrawingMode is false,
\* always ends with isDrawingMode true, isDrawingHole false and the prior
\* session cleared (no vertices, holes or history), leftover vertices or not.
C5_StartConfigEntersDrawingMain ==
    [][(handleConfigTerminer /\ ~isDrawingMode)
        => /\ isDrawingMode'
           /\ ~isDrawingHole'
           /\ drawnPoints' = <<>>
           /\ holes' = <<>>
           /\ currentHole' = <<>>
           /\ drawingHistory' = <<>>]_vars

\* what cleanup() leaves: every collection empty, history index -1, undo and
\* redo off, and the parent notified with a null custom area and a zero area
CleanedUp ==
    /\ drawnPoints' = <<>>
    /\ holes' = <<>>
    /\ currentHole' = <<>>
    /\ polygons' = <<>>
    /\ drawingHistory' = <<>>
    /\ currentHistoryIndex' = -1
    /\ ~canUndo'
    /\ ~canRedo'
    /\ ~isDrawingHole'
    /\ pubArea' = <<>>
    /\ pubTechArea' = 0

C7_HoleFinishReturnsToDrawingMain ==
    [][/\ Len(holes') > Len(holes)
          => /\ \/ holes' = Append(holes, currentHole)
                \/ holes' = Append(holes, Closed(currentHole))
             /\ currentHole' = <<>>
             /\ ~isDrawingHole'
             /\ isDrawingMode'
             /\ drawnPoints' = drawnPoints
       /\ \A i \in 1..Len(pending) :
            (updateTotalMetrics(i) /\ pending[i].from = "completeHole")
                => isDrawingMode' = isDrawingMode]_vars

\* C8 (as claimed): when drawing mode is exited or the active view changes,
\* the session is reset: no vertices, no holes, no history.
C8_ExitResetsSession ==
    [][((isDrawingMode /\ ~isDrawingMode') \/ activeView' # activeView)
        => /\ drawnPoints' = <<>>
           /\ holes' = <<>>
           /\ currentHole' = <<>>
           /\ drawingHistory' = <<>>
           /\ currentHistoryIndex' = -1]_vars

\* C9 (as claimed): every handler that changes the vertices or the holes
\* (vertex added, undo, redo, hole completed) leaves the parent notified with
\* the net area of the polygon it leaves, or with null or zero when fewer than
\* 3 vertices remain.
C9_MutationNotifiesCurrentArea ==
    [][(/\ lastOp'.op \in {"addVertex", "undo", "redo", "snapHole", "endConfigHole"}
        /\ <<drawnPoints', holes'>> # <<drawnPoints, holes>>)
        => IF Len(drawnPoints') >= 3
           THEN \/ Published' = turfArea(CloseRing(drawnPoints')) - SumHoleAreas(holes', 1)
                \/ Published' = 0 /\ turfArea(CloseRing(drawnPoints')) <= SumHoleAreas(holes', 1)
           ELSE Published' = 0]_vars

C12_AddAfterUndoTruncatesRedoTail ==
    [][/\ (/\ lastOp'.op = "addVertex"
           /\ Len(drawnPoints') = Len(drawnPoints) + 1
           /\ currentHistoryIndex < Len(drawingHistory) - 1)
           => /\ drawingHistory' =
                     [j \in 1..(currentHistoryIndex + 2) |->
                         IF j <= currentHistoryIndex + 1 THEN drawingHistory[j]
                         ELSE drawnPoints']
              /\ currentHistoryIndex' = Len(drawingHistory') - 1
              /\ ~canRedo'
       /\ (handleRedo /\ lastOp.op = "addVertex")
           => UNCHANGED <<session, pubArea, pubTechArea>>]_vars

\* a vertex was added after undos: snapshots were dropped and the new one is last
C12_Witness ==
    /\ lastOp.op = "addVertex"
    /\ lastOp.arg[1] >= 1
    /\ currentHistoryIndex = Len(drawingHistory) - 1
    /\ drawingHistory[Len(drawingHistory)] = drawnPoints
    /\ Len(drawnPoints) >= 2

\* C13: handleUndo and handleRedo leave the completed holes, the hole buffer
\* and the stored history snapshots as they were; what they change is the
\* main vertices, which become the snapshot one step away, the history index
\* and the canUndo / canRedo flags.
C13_UndoRedoFrame ==
    [][(handleUndo \/ handleRedo)
        => /\ holes' = holes
           /\ currentHole' = currentHole
           /\ drawingHistory' = drawingHistory
           /\ isDrawingHole' = isDrawingHole
           /\ polygons' = polygons
           /\ \/ UNCHANGED <<drawnPoints, currentHistoryIndex, canUndo, canRedo>>
              \/ /\ Abs(currentHistoryIndex' - currentHistoryIndex) = 1
                 /\ drawnPoints' = drawingHistory[currentHistoryIndex' + 1]]_vars

\* an undo took a vertex back while an exclusion zone was being drawn
C13_Witness ==
    /\ lastOp.op = "undo"
    /\ isDrawingHole
    /\ Len(currentHole) >= 1
    /\ Len(drawingHistory) = 3
    /\ Len(drawnPoints) = 2

\* a redo restored a vertex next to a completed hole
C13_WitnessRedo ==
    /\ lastOp.op = "redo"
    /\ Len(holes) = 1
    /\ Len(drawnPoints) = 3
    /\ drawingHistory[3] = drawnPoints

\* C14: "Exclure Zone" enters DrawingHole only with >= 3 main vertices; with
\* fewer it changes nothing; when it enters, the hole buffer is empty and the
\* main vertices, the completed holes and the history are unchanged. No other
\* step turns isDrawingHole on.
C14_StartDrawingHoleGuard ==
    [][/\ startDrawingHole
           => IF Len(drawnPoints) < 3
              THEN UNCHANGED <<session, isDrawingHole, isDrawingMode, polygons,
                               pubArea, pubTechArea>>
              ELSE /\ isDrawingHole'
                   /\ isDrawingMode'
                   /\ currentHole' = <<>>
                   /\ UNCHANGED <<drawnPoints, holes, drawingHistory, currentHistoryIndex,
                                  canUndo, canRedo, polygons>>
       /\ (~isDrawingHole /\ isDrawingHole')
           => (Len(drawnPoints) >= 3 /\ drawnPoints' = drawnPoints /\ currentHole' = <<>>)]_vars

\* "Exclure Zone" has just opened an empty hole buffer over three vertices
C14_Witness ==
    /\ lastOp.op = "startDrawingHole"
    /\ isDrawingHole
    /\ currentHole = <<>>
    /\ Len(drawnPoints) = 3
    /\ Len(drawingHistory) = 3

\* "Exclure Zone" was called with fewer than three vertices
C14_WitnessNoop ==
    /\ lastOp.op = "startDrawingHoleNoop"
    /\ ~isDrawingHole
    /\ Len(drawnPoints) \in {1, 2}

\* the lookup failed: error status, unsuccessful payload, out-of-range price,
\* or a thrown network or parsing exception
RateLookupFailed ==
    \/ rateEnv.http \in {"throw", "notOk"}
    \/ rateEnv.payload.body \in {"parseError", "notSuccess", "noData"}
    \/ OutOfRange(rateInKwh(rateEnv.payload.price))

\* C15 (as claimed): when the lookup fails for country code "XX", which the
\* fallback table lacks, getCurrentElectricityRate returns the France fallback
\* rate, a finite positive number, on every failure path; never NaN or
\* undefined.
C15_UnknownCountryFallsBackToFrance ==
    (rateCall.pc = "done" /\ rateEnv.country = "XX" /\ RateLookupFailed)
        => (rateCall.result = Num(FALLBACK_RATES["FR"]) /\ rateCall.result.v > 0)

\* the price of the payload is absent or not a number
PriceMalformed == rateEnv.payload.body = "data" /\ rateEnv.payload.price.kind # "num"

\* C16 (as claimed): a payload whose price is missing or not a number, or a
\* price outside the sane bounds, is never returned by the electricity-price
\* fetchers: each returns its static fallback rate instead.
C16_MalformedPriceNeverReturned ==
    /\ (/\ rateCall.pc = "done"
        /\ rateEnv.country # "null"
        /\ rateEnv.http = "ok"
        /\ PriceMalformed \/ (rateEnv.payload.body = "data"
                              /\ OutOfRange(rateInKwh(rateEnv.payload.price))))
           => rateCall.result = OrFrance(FallbackLookup(rateEnv.country))
    /\ (priceCall.pc = "done" /\ rateEnv.http = "ok" /\ PriceMalformed)
           => priceCall.result = Num(DefaultPrice)

\* C17: electricityPrice, isFallbackRate and isRateLoading are written only
\* by the effect run that issues the request for a new address and by the
\* response to the latest request, for the address displayed, while the view
\* is mounted; a response that resolves after the tear-down or after a newer
\* request was issued writes nothing.
C17_StaleRateResponseDiscarded ==
    [][(<<electricityPrice, isFallbackRate, isRateLoading>>'
            # <<electricityPrice, isFallbackRate, isRateLoading>>)
        => /\ arMounted'
           /\ \/ /\ arIssued' = arIssued + 1
                 /\ electricityPrice' = electricityPrice
              \/ /\ arMounted
                 /\ arIssued' = arIssued
                 /\ arAddress' = arAddress
                 /\ \E r \in arRequests :
                        /\ r \notin arRequests'
                        /\ r.id = arIssued
                        /\ r.address = arAddress]_vars

\* the response to the first request arrived after a second address was
\* requested and was dropped: nothing was written, the second is in flight
C17_Witness ==
    /\ arMounted
    /\ arIssued = 2
    /\ arRequests = {Request(2, arAddress, TRUE)}
    /\ isRateLoading
    /\ electricityPrice = Num(InitialElectricityPrice)

\* every response arrived after the view was torn down while loading
C17_WitnessUnmounted ==
    /\ ~arMounted
    /\ arIssued >= 1
    /\ arRequests = {}
    /\ isRateLoading
    /\ electricityPrice = Num(InitialElectricityPrice)

\* the payback the claim expects: cost over net revenue, the horizon of 25
\* years when the net revenue is not positive
ClaimedPayback(cost, nets) ==
    IF nets > 0 THEN Frac(cost, nets) ELSE Frac(AnalysisPeriod, 1)

\* C18 (as claimed): for each financial scenario the reported simple payback
\* is installationCostAfterIncentives / netRevenue when netRevenue > 0 and
\* the analysis horizon of 25 years when netRevenue <= 0: for the resale and
\* the self-consumption scenario of updateTotalMetrics and for the payback of
\* calculateFinancials.
C18_PaybackIsCostOverNetRevenue ==
    /\ technicalInfo.published =>
          /\ technicalInfo.reventeInfo.roi
                = ClaimedPayback(technicalInfo.finalCost,
                                 technicalInfo.reventeInfo.revenusNets)
          /\ technicalInfo.autoconsoInfo.roi
                = ClaimedPayback(technicalInfo.finalCost,
                                 technicalInfo.autoconsoInfo.revenusNets)
    /\ financials.computed =>
          financials.ROI_YEARS
              = ClaimedPayback(financialsInput.installationCost,
                               financialsInput.yearlyRevenue
                                   - financialsInput.yearlyMaintenanceCost)

\* C19 (as claimed): for fixed roof data the estimated annual energy that
\* updateTotalMetrics publishes is non-decreasing in the area and, when the
\* response carries maxArrayAnnualEnergyKwh, never exceeds it, for every drawn
\* area, those larger than maxArrayAreaMeters2 included.
C19_EnergyMonotoneAndCapped ==
    technicalInfo.published =>
        /\ \A a1, a2 \in 0..MaxDrawnArea :
              a1 <= a2 => estimatedEnergy(metricsInput.solarPotential, a1)
                            <= estimatedEnergy(metricsInput.solarPotential, a2)
        /\ metricsInput.solarPotential.maxArrayAnnualEnergyKwh.kind = "num"
              => technicalInfo.estimatedEnergy
                    <= metricsInput.solarPotential.maxArrayAnnualEnergyKwh.v

\* the response lacks solarPotential, has no panel configuration or no roof
\* segment
IncompleteInsights(r) ==
    \/ ~r.solarPotential
    \/ r.solarPanelConfigs # "some"
    \/ r.roofSegments # "some"

\* C20 (as claimed): when the building-insights response lacks
\* solarPotential, has no panel configurations or has no roof segments, the
\* analysis ends with error set and results null; no results are produced
\* from such a response.
C20_IncompleteInsightsEndInError ==
    (analysis.pc = "idle" /\ analysis.answered /\ IncompleteInsights(analysis.response))
        => (error # "null" /\ results = <<>>)

\* C24 (as claimed): while a hole is being drawn or a completed hole exists,
\* the main polygon has at least 3 vertices.
C24_HoleNeedsThreeMainVertices ==
    (isDrawingHole \/ Len(holes) >= 1) => Len(drawnPoints) >= 3

\* C28 (as claimed): -1 <= currentHistoryIndex <= Len(drawingHistory) - 1,
\* with -1 exactly when the history is empty; canUndo is (index > 0), canRedo
\* is (index < length - 1); and right after a vertex addition, an undo or a
\* redo, drawnPoints is the snapshot at the index.
C28_HistoryIndexInvariant ==
    /\ -1 <= currentHistoryIndex
    /\ currentHistoryIndex <= Len(drawingHistory) - 1
    /\ (currentHistoryIndex = -1) <=> (drawingHistory = <<>>)
    /\ canUndo <=> (currentHistoryIndex > 0)
    /\ canRedo <=> (currentHistoryIndex < Len(drawingHistory) - 1)
    /\ lastOp.op \in {"addVertex", "undo", "redo"}
          => drawnPoints = drawingHistory[currentHistoryIndex + 1]

\* after two undos out of three vertices: both buttons are live and the
\* vertices are the snapshot at the index
C28_Witness ==
    /\ lastOp.op = "undo"
    /\ Len(drawingHistory) = 3
    /\ currentHistoryIndex = 1
    /\ canUndo
    /\ canRedo
    /\ drawnPoints = drawingHistory[2]

\* C25 (as claimed): once a main polygon is completed, which empties the
\* vertex buffer, handleUndo and handleRedo bring none of its vertices back:
\* the history holds no snapshot of it, so they leave the buffer empty.
C25_UndoRedoNeverRestoreCompleted ==
    [][((handleUndo \/ handleRedo) /\ drawnPoints = <<>> /\ Len(polygons) >= 1)
          => drawnPoints' = <<>>]_vars

\* C26 (as claimed): the total that the updateTotalMetrics call triggered by
\* completePolygon publishes is the sum over the drawn polygons, the one just
\* completed included; never the roof's maxArrayAreaMeters2 fallback.
C26_CompletionPublishesDrawnTotal ==
    [][\A i \in 1..MaxPending :
          (updateTotalMetrics(i) /\ pending[i].from = "completePolygon"
                                 /\ Len(polygons) >= 1)
              => /\ pubArea' = <<SumPolygonAreas(polygons, 1)>>
                 /\ pubTechArea' = SumPolygonAreas(polygons, 1)]_vars

\* C27 (as claimed): once cleanup has published a null area and zeroed the
\* technical info, nothing but null / zero is published until a vertex is
\* added: an updateTotalMetrics call that was still waiting when cleanup ran
\* publishes nothing afterwards.
C27_NoPublicationAfterCleanup ==
    [][(pubArea = <<>> /\ pubTechArea = 0 /\ drawnPoints = <<>> /\ polygons = <<>>
            /\ lastOp.op \in {"cleanup", "startConfig"}
            /\ lastOp'.op # "addVertex")
          => (pubArea' \in {<<>>, <<0>>} /\ pubTechArea' = 0)]_vars

\* the messages the application words itself
UserMessages ==
    {"Impossible de trouver l'adresse",
     "Invalid response from Solar API: Missing required fields",
     "Failed to analyze solar potential. Please try again."}

\* C21 (as claimed, read in the code's favour): an error shown after a failed
\* analysis is one of a fixed set of messages, those the application words
\* itself or, at most, the runtime's message of a rejected fetch or a failed
\* parse; no status text or error message of an upstream response is part
\* of it.
C21_NoUpstreamTextInError ==
    error # "null" => error \in UserMessages \cup {FetchRejected, ParseFailed}

\* C30: every call of handleAnalyze eventually leaves isLoading false, whether
\* the geocoding and the insights request succeed or fail, and whenever a call
\* has finished exactly one of results and error is set.
C30_AnalysisEndsWithResultsOrError ==
    /\ isLoading ~> ~isLoading
    /\ [](  (~isLoading /\ analysis.calls >= 1)
              => ((results # <<>>) # (error # "null")))

\* a second analysis succeeded after a first one failed: results, no error
C30_Witness ==
    /\ ~isLoading
    /\ analysis.calls = 2
    /\ results # <<>>
    /\ error = "null"

\* an analysis failed: an error, no results
C30_WitnessFailure ==
    /\ ~isLoading
    /\ analysis.calls >= 1
    /\ results = <<>>
    /\ error # "null"

\* C22 (as claimed): in a page whose keys are configured, once the iframe has
\* loaded the parent eventually posts `init`, the iframe applies the site's
\* keys to its config and posts `ready`; neither side waits for the other's
\* first message for ever.
C22_InitReadyExchangeCompletes ==
    (frameLoaded /\ embedding.keysConfigured)
        ~> (initsPosted >= 1 /\ frameKeys = "site" /\ readiesPosted >= 1)

\* C23 (as claimed): both listeners act only on messages of the expected
\* origin: a message posted by a window of another origin changes no state
\* and triggers no reply; and the API keys are posted to the expected origin
\* only.
C23_MessagesAreOriginValidated ==
    /\ [][/\ (parentReceive /\ Head(toParent).origin # SiteOrigin)
                => UNCHANGED <<toFrame, initsPosted, keysTargets, parentHandled>>
          /\ (frameReceive /\ Head(toFrame).origin # SiteOrigin)
                => UNCHANGED <<frameKeys, appRuns, toParent, readiesPosted>>]_vars
    /\ [](keysTargets \subseteq {SiteOrigin})

\* C29 (as claimed): the exchange is finite: a `ready` that the iframe posted
\* in answer to an `init` makes the parent post no further `init`, and the
\* iframe calls initializeApp at most once per page load.
C29_ExchangeIsFinite ==
    /\ [][(parentReceive /\ Head(toParent).type = "ready"
                         /\ Head(toParent).origin = SiteOrigin)
            => initsPosted' = initsPosted]_vars
    /\ [](appRuns <= 1)

====
